---- MODULE Spec2Model ----
(***************************************************************************)
(* Model of token_gen.py: the LinkedIn OAuth bootstrap script.             *)
(*                                                                         *)
(* The program is sequential.  Its state is the environment credentials,   *)
(* the token file on disk, the local variables of authenticate() and of    *)
(* get_authorization_code(), and the callback server's auth_code.  The     *)
(* environment (the identity provider, the browser redirecting to the      *)
(* callback listener) is nondeterministic: every HTTP reply and every      *)
(* inbound request is drawn from a small set.  One invocation of the       *)
(* program is modelled; it starts with any token file an earlier           *)
(* invocation can have left on disk.                                       *)
(*                                                                         *)
(* Python values: a str is a TLA+ string, None (where a str is expected)   *)
(* is the string None below, a dict is a function from keys to values, a   *)
(* missing dict (load_tokens() returning None, no file on disk) is NoDict. *)
(***************************************************************************)
EXTENDS Integers, Sequences, FiniteSets, TLC

VARIABLES
    CLIENT_ID,        \* os.getenv("LINKEDIN_CLIENT_ID")
    CLIENT_SECRET,    \* os.getenv("LINKEDIN_CLIENT_SECRET")
    pc,               \* position of the program
    file,             \* contents of TOKEN_FILE, NoDict when it does not exist
    tokens,           \* authenticate(): tokens
    access_token,     \* authenticate(): access_token
    user_info,        \* authenticate(): user_info
    person_urn,       \* authenticate(): person_urn
    auth_code,        \* authenticate(): auth_code
    server_auth_code, \* get_authorization_code(): server.auth_code
    request,          \* the request the callback handler handled last
    status,           \* the status the callback handler answered last
    result,           \* the pair authenticate() returned
    io,               \* what this invocation did to the outside world
    probe,            \* outcome of the cached-token probe of this invocation
    failure,          \* what made authenticate() raise in this invocation
    token_status,     \* status of the token endpoint's reply, 0 before it
    fileAtStart,      \* TOKEN_FILE as it was when this invocation started
    lastExchange      \* reply of the most recent successful token exchange

vars == <<CLIENT_ID, CLIENT_SECRET, pc, file, tokens, access_token, user_info,
          person_urn, auth_code, server_auth_code, request, status, result,
          io, probe, failure, token_status, fileAtStart, lastExchange>>

----------------------------------------------------------------------------
(* Bounds *)

\* The longest query string of an inbound request, in name=value pairs.
MaxParams == 2

----------------------------------------------------------------------------
(* Values *)

None == "None"
NoDict == [none |-> TRUE]
NoResult == <<>>
NoRequest == [path |-> "", query |-> <<>>]

EnvValues == {None, "", "id"}
Tokens == {"tokA", "tokB"}
Subs == {"s1", "s2"}
Names == {"Ann"}

\* Raw query-string values, as sequences of characters: blank, a plain
\* character, a percent escape followed by a plus sign.
RawValues == {<<>>, <<"A">>, <<"%42", "+">>}

RECURSIVE SeqsUpTo(_, _)
SeqsUpTo(S, n) ==
    IF n = 0 THEN {<<>>}
    ELSE LET shorter == SeqsUpTo(S, n - 1)
         IN  shorter \cup {Append(s, x) : s \in {t \in shorter : Len(t) = n - 1}, x \in S}

\* The name=value pairs of a query string: a code of any raw value, an error.
Params ==
    [name : {"code"}, value : RawValues]
    \cup [name : {"error"}, value : {<<"A">>}]
Queries == SeqsUpTo(Params, MaxParams)
Requests == [path : {"/callback", "/favicon.ico"}, query : Queries]

\* Replies of POST https://www.linkedin.com/oauth/v2/accessToken
ExchangeResponses ==
    {[status_code |-> 200, json |-> [access_token |-> t, expires_in |-> 5184000]] : t \in Tokens}
    \cup {[status_code |-> 200, json |-> [expires_in |-> 5184000]]}
    \cup {[status_code |-> 400, json |-> [error |-> "invalid_request"]]}

\* Replies of GET https://api.linkedin.com/v2/userinfo
UserInfoResponses ==
    {[status_code |-> 200, json |-> [sub |-> s, name |-> n]] : s \in Subs, n \in Names}
    \cup {[status_code |-> 200, json |-> [sub |-> s]] : s \in Subs}
    \cup {[status_code |-> 200, json |-> [name |-> n]] : n \in Names}
    \cup {[status_code |-> 401, json |-> [message |-> "invalid token"]]}

NoIo == [reads |-> 0, writes |-> 0, userinfo |-> 0, exchange |-> 0,
         browser |-> 0, listen |-> 0]

----------------------------------------------------------------------------
(* Helpers of the callback handler *)

\* One character of a query-string value as parse_qs decodes it.
unquote_char(c) ==
    IF c = "+" THEN " "
    ELSE IF c = "%42" THEN "B"
    ELSE c

RECURSIVE unquote(_)
unquote(raw) ==
    IF raw = <<>> THEN "" ELSE unquote_char(Head(raw)) \o unquote(Tail(raw))

\* parse_qsl: the name=value pairs in order, pairs with a blank value dropped
\* (keep_blank_values is False), the values decoded.
RECURSIVE parse_qsl(_)
parse_qsl(query) ==
    IF query = <<>> THEN <<>>
    ELSE LET nv == Head(query)
             rest == parse_qsl(Tail(query))
         IN  IF Len(nv.value) > 0
             THEN <<[name |-> nv.name, value |-> unquote(nv.value)]>> \o rest
             ELSE rest

RECURSIVE values_of(_, _)
values_of(pairs, name) ==
    IF pairs = <<>> THEN <<>>
    ELSE IF Head(pairs).name = name
         THEN <<Head(pairs).value>> \o values_of(Tail(pairs), name)
         ELSE values_of(Tail(pairs), name)

\* parse_qs: dict from each name that occurs to the list of its values.
parse_qs(query) ==
    LET pairs == parse_qsl(query)
    IN  [n \in {pairs[i].name : i \in 1..Len(pairs)} |-> values_of(pairs, n)]

\* do_GET with the error parameter looked at before the code parameter.
do_GET_error_first(server, req) ==
    IF req.path = "/callback"
    THEN LET query_params == parse_qs(req.query)
         IN  IF "error" \in DOMAIN query_params
             THEN [auth_code |-> server, status |-> 400]
             ELSE IF "code" \in DOMAIN query_params
                  THEN [auth_code |-> query_params["code"][1], status |-> 200]
                  ELSE [auth_code |-> server, status |-> 400]
    ELSE [auth_code |-> server, status |-> 404]

\* do_GET without the test of the path.
do_GET_any_path(server, req) ==
    LET query_params == parse_qs(req.query)
    IN  IF "code" \in DOMAIN query_params
        THEN [auth_code |-> query_params["code"][1], status |-> 200]
        ELSE [auth_code |-> server, status |-> 400]

\* OAuthCallbackHandler.do_GET: the new server.auth_code and the status sent.
do_GET(server, req) ==
    IF req.path = "/callback"
    THEN LET query_params == parse_qs(req.query)
         IN  IF "code" \in DOMAIN query_params
             THEN [auth_code |-> query_params["code"][1], status |-> 200]
             ELSE [auth_code |-> server, status |-> 400]
    ELSE [auth_code |-> server, status |-> 404]

\* The loop condition inverted.
keep_waiting_inverted(server) == server # None

\* while server.auth_code is None
keep_waiting(server) == server = None

----------------------------------------------------------------------------
(* Helpers of the orchestrator *)

\* save_tokens: the file is overwritten with the whole dict.
save_tokens(t) == t

\* load_tokens: the parsed file, None when the file does not exist.
load_tokens(f) == IF f # NoDict THEN f ELSE NoDict

\* The cached token never recognised.
has_cached_token_never(t) == FALSE

\* if tokens and "access_token" in tokens
has_cached_token(t) ==
    /\ t # NoDict
    /\ DOMAIN t # {}
    /\ "access_token" \in DOMAIN t

\* The status of the token endpoint's reply not looked at.
exchange_ok_any(response) == TRUE

\* response.status_code == 200 in exchange_code_for_token
exchange_ok(response) == response.status_code = 200

\* response.status_code == 200 in get_user_info
user_info_ok(response) == response.status_code = 200

\* f"urn:li:person:{user_info['sub']}"
urn_of(info) == "urn:li:person:" \o info.sub

\* user_info.get("name", "Unknown")
name_of(info) == IF "name" \in DOMAIN info THEN info.name ELSE "Unknown"

\* The merge without user_name.
with_profile_no_name(t, urn, name) ==
    [k \in DOMAIN t \cup {"person_urn"} |-> IF k = "person_urn" THEN urn ELSE t[k]]

\* tokens["person_urn"] = ...; tokens["user_name"] = ...
with_profile(t, urn, name) ==
    [k \in DOMAIN t \cup {"person_urn", "user_name"} |->
        IF k = "person_urn" THEN urn
        ELSE IF k = "user_name" THEN name
        ELSE t[k]]

\* access_token left as it was (the cached one, after a failed probe).
fresh_access_token_stale(old, t) == old

\* access_token = tokens["access_token"] after the exchange: the new value
\* of access_token, given its old value and tokens
fresh_access_token(old, t) == t["access_token"]

\* The save right after the exchange left out.
file_after_exchange_unsaved(f, t) == f

\* save_tokens(tokens) right after the exchange
file_after_exchange(f, t) == save_tokens(t)

\* The credentials check with "and" for "or".
credentials_missing_both(id, secret) ==
    /\ id = None \/ id = ""
    /\ secret = None \/ secret = ""

\* if not CLIENT_ID or not CLIENT_SECRET
credentials_missing(id, secret) ==
    \/ id = None \/ id = ""
    \/ secret = None \/ secret = ""

----------------------------------------------------------------------------
(* The program *)

\* What a successful exchange and a successful profile fetch of an earlier
\* invocation returned.
PreviousExchanges == {r.json : r \in {x \in ExchangeResponses : exchange_ok(x)}}
PreviousInfos ==
    {r.json : r \in {x \in UserInfoResponses :
                        user_info_ok(x) /\ "sub" \in DOMAIN x.json}}

\* The token files an earlier invocation whose exchange returned e can have
\* left: the bare reply (first save), or the reply with the profile merged in
\* (second save).
LeftBy(e) ==
    {save_tokens(e)} \cup
    IF "access_token" \in DOMAIN e
    THEN {save_tokens(with_profile(e, urn_of(i), name_of(i))) : i \in PreviousInfos}
    ELSE {}

Init ==
    /\ CLIENT_ID \in EnvValues
    /\ CLIENT_SECRET \in EnvValues
    /\ pc = "main"
    /\ \/ /\ lastExchange = NoDict
          /\ file = NoDict
       \/ \E e \in PreviousExchanges :
             /\ lastExchange = e
             /\ file \in LeftBy(e)
    /\ fileAtStart = file
    /\ tokens = NoDict
    /\ access_token = None
    /\ user_info = NoDict
    /\ person_urn = None
    /\ auth_code = None
    /\ server_auth_code = None
    /\ request = NoRequest
    /\ status = 0
    /\ result = NoResult
    /\ io = NoIo
    /\ probe = "none"
    /\ failure = "none"
    /\ token_status = 0

\* __main__: the credentials check.
Main ==
    /\ pc = "main"
    /\ pc' = IF credentials_missing(CLIENT_ID, CLIENT_SECRET)
             THEN "config_error" ELSE "authenticate"
    /\ UNCHANGED <<token_status, CLIENT_ID, CLIENT_SECRET, file, tokens, access_token,
                   user_info, person_urn, auth_code, server_auth_code,
                   request, status, result, io, probe, failure,
                   fileAtStart, lastExchange>>

\* authenticate(): tokens = load_tokens() and the test for a cached token.
LoadTokens ==
    /\ pc = "authenticate"
    /\ tokens' = load_tokens(file)
    /\ io' = [io EXCEPT !.reads = @ + 1]
    /\ IF has_cached_token(tokens')
       THEN /\ access_token' = tokens'["access_token"]
            /\ pc' = "probe"
       ELSE /\ access_token' = access_token
            /\ pc' = "fresh"
    /\ UNCHANGED <<token_status, CLIENT_ID, CLIENT_SECRET, file, user_info, person_urn,
                   auth_code, server_auth_code, request, status, result,
                   probe, failure, fileAtStart, lastExchange>>

\* authenticate(): the try block probing the cached token.  A reply other
\* than 200 raises in get_user_info, a reply without sub raises KeyError;
\* both are caught and the fresh flow follows.
Probe ==
    /\ pc = "probe"
    /\ \E response \in UserInfoResponses :
         /\ io' = [io EXCEPT !.userinfo = @ + 1]
         /\ IF user_info_ok(response)
            THEN /\ user_info' = response.json
                 /\ IF "sub" \in DOMAIN response.json
                    THEN /\ person_urn' = urn_of(response.json)
                         /\ result' = <<access_token, person_urn'>>
                         /\ probe' = "ok"
                         /\ pc' = "returned"
                    ELSE /\ probe' = "failed"
                         /\ pc' = "fresh"
                         /\ UNCHANGED <<person_urn, result>>
            ELSE /\ probe' = "failed"
                 /\ pc' = "fresh"
                 /\ UNCHANGED <<user_info, person_urn, result>>
    /\ UNCHANGED <<token_status, CLIENT_ID, CLIENT_SECRET, file, tokens, access_token,
                   auth_code, server_auth_code, request, status, failure,
                   fileAtStart, lastExchange>>

\* get_authorization_code(): open the browser, start the listener.
StartServer ==
    /\ pc = "fresh"
    /\ io' = [io EXCEPT !.browser = @ + 1, !.listen = @ + 1]
    /\ server_auth_code' = None
    /\ pc' = "wait"
    /\ UNCHANGED <<token_status, CLIENT_ID, CLIENT_SECRET, file, tokens, access_token,
                   user_info, person_urn, auth_code, request, status, result,
                   probe, failure, fileAtStart, lastExchange>>

\* get_authorization_code(): one iteration of the wait loop, handling one
\* inbound request.
HandleRequest ==
    /\ pc = "wait"
    /\ keep_waiting(server_auth_code)
    /\ \E req \in Requests :
         LET handled == do_GET(server_auth_code, req)
         IN  /\ request' = req
             /\ server_auth_code' = handled.auth_code
             /\ status' = handled.status
    /\ UNCHANGED <<token_status, CLIENT_ID, CLIENT_SECRET, pc, file, tokens, access_token,
                   user_info, person_urn, auth_code, result, io, probe,
                   failure, fileAtStart, lastExchange>>

\* get_authorization_code(): the loop ends, server.auth_code is returned.
ReturnCode ==
    /\ pc = "wait"
    /\ ~keep_waiting(server_auth_code)
    /\ auth_code' = server_auth_code
    /\ request' = NoRequest
    /\ status' = 0
    /\ pc' = "exchange"
    /\ UNCHANGED <<token_status, CLIENT_ID, CLIENT_SECRET, file, tokens, access_token,
                   user_info, person_urn, server_auth_code, result, io,
                   probe, failure, fileAtStart, lastExchange>>

\* authenticate(): tokens = exchange_code_for_token(auth_code);
\* save_tokens(tokens); access_token = tokens["access_token"].
ExchangeCode ==
    /\ pc = "exchange"
    /\ \E response \in ExchangeResponses :
         /\ token_status' = response.status_code
         /\ io' = [io EXCEPT !.exchange = @ + 1,
                             !.writes = IF exchange_ok(response) THEN @ + 1 ELSE @]
         /\ IF exchange_ok(response)
            THEN /\ tokens' = response.json
                 /\ lastExchange' = response.json
                 /\ file' = file_after_exchange(file, tokens')
                 /\ IF "access_token" \in DOMAIN tokens'
                    THEN /\ access_token' = fresh_access_token(access_token, tokens')
                         /\ pc' = "userinfo"
                         /\ failure' = failure
                    ELSE /\ access_token' = access_token
                         /\ pc' = "raised"
                         /\ failure' = "KeyError"
            ELSE /\ pc' = "raised"
                 /\ failure' = "exchange"
                 /\ UNCHANGED <<tokens, lastExchange, file, access_token>>
    /\ UNCHANGED <<CLIENT_ID, CLIENT_SECRET, user_info, person_urn, auth_code,
                   server_auth_code, request, status, result, probe,
                   fileAtStart>>

\* authenticate(): user_info = get_user_info(access_token) of the fresh
\* flow, the merge of person_urn and user_name, the second save, the return.
FetchUserInfo ==
    /\ pc = "userinfo"
    /\ \E response \in UserInfoResponses :
         /\ io' = [io EXCEPT !.userinfo = @ + 1,
                             !.writes = IF user_info_ok(response)
                                           /\ "sub" \in DOMAIN response.json
                                        THEN @ + 1 ELSE @]
         /\ IF user_info_ok(response)
            THEN /\ user_info' = response.json
                 /\ IF "sub" \in DOMAIN response.json
                    THEN /\ person_urn' = urn_of(response.json)
                         /\ tokens' = with_profile(tokens, person_urn',
                                                   name_of(response.json))
                         /\ file' = save_tokens(tokens')
                         /\ result' = <<access_token, person_urn'>>
                         /\ pc' = "returned"
                         /\ failure' = failure
                    ELSE /\ pc' = "raised"
                         /\ failure' = "KeyError"
                         /\ UNCHANGED <<person_urn, tokens, file, result>>
            ELSE /\ pc' = "raised"
                 /\ failure' = "userinfo"
                 /\ UNCHANGED <<user_info, person_urn, tokens, file, result>>
    /\ UNCHANGED <<token_status, CLIENT_ID, CLIENT_SECRET, access_token, auth_code,
                   server_auth_code, request, status, probe, fileAtStart,
                   lastExchange>>

Next ==
    \/ Main
    \/ LoadTokens
    \/ Probe
    \/ StartServer
    \/ HandleRequest
    \/ ReturnCode
    \/ ExchangeCode
    \/ FetchUserInfo

Spec == Init /\ [][Next]_vars

----------------------------------------------------------------------------
(* Properties *)

HasToken(d) == d # NoDict /\ "access_token" \in DOMAIN d
TokenIn(d) == IF HasToken(d) THEN d["access_token"] ELSE None
UrnFor(info) == "urn:li:person:" \o info["sub"]
Missing(v) == v = None \/ v = ""

\* The positions of the code parameters of a query, and of those whose value
\* is not blank.
CodeParams(q) == {i \in 1..Len(q) : q[i].name = "code"}
NonBlankCodeParams(q) == {i \in CodeParams(q) : q[i].value # <<>>}
First(S) == CHOOSE i \in S : \A j \in S : i <= j
Handled == pc = "wait" /\ status # 0

\* Every token file is one the program writes: the bare reply of a
\* successful exchange, or that reply with person_urn and user_name merged in.
TypeOK ==
    /\ pc \in {"main", "config_error", "authenticate", "probe", "fresh",
               "wait", "exchange", "userinfo", "returned", "raised"}
    /\ file = NoDict \/ file \in UNION {LeftBy(e) : e \in PreviousExchanges}
    /\ status \in {0, 200, 400, 404}
    /\ probe \in {"none", "ok", "failed"}
    /\ failure \in {"none", "exchange", "userinfo", "KeyError"}

\* C1: with a cached record holding an access_token whose probe succeeds,
\* authenticate() returns (cached access_token, "urn:li:person:" + sub of the
\* probe's reply); in that call the browser is not opened, the listener is
\* not started, no exchange is performed and the file is not written.  The
\* listener is started only when there was no cached token or its probe
\* failed.
C1_CachedProbeReturns ==
    /\ (HasToken(fileAtStart) /\ probe = "ok") =>
          /\ pc = "returned"
          /\ result = <<fileAtStart["access_token"], UrnFor(user_info)>>
          /\ io.userinfo = 1
          /\ io.listen = 0 /\ io.browser = 0 /\ io.exchange = 0
          /\ io.writes = 0 /\ file = fileAtStart
    /\ (HasToken(fileAtStart)
           /\ pc \notin {"main", "config_error", "authenticate", "probe"}) =>
          (probe # "none" /\ io.userinfo >= 1)
    /\ (HasToken(fileAtStart) /\ io.listen > 0) => probe = "failed"

C1_Witness ==
    /\ probe = "ok" /\ pc = "returned"
    /\ "person_urn" \in DOMAIN fileAtStart
    /\ result = <<"tokB", "urn:li:person:s2">>
    /\ fileAtStart["person_urn"] = "urn:li:person:s1"

\* C2: after a failed probe of the cached token the fresh flow runs once
\* (one listener, one exchange, one more userinfo fetch, the saves) and what
\* authenticate() returns is the access_token of the new exchange's reply and
\* the URN of the new userinfo reply; the probe failure leaves the file as it
\* was, until the flow writes it.
C2_ProbeFailureFallsThrough ==
    probe = "failed" =>
        /\ io.listen <= 1 /\ io.exchange <= 1 /\ io.userinfo <= 2
        /\ io.writes = 0 => file = fileAtStart
        /\ pc \notin {"main", "authenticate", "probe", "config_error"}
        /\ pc = "returned" =>
              /\ io.listen = 1 /\ io.exchange = 1 /\ io.userinfo = 2
              /\ io.writes = 2
              /\ token_status = 200
              /\ result = <<lastExchange["access_token"], UrnFor(user_info)>>
              /\ file["access_token"] = result[1]
              /\ file["person_urn"] = result[2]

C2_Witness ==
    /\ probe = "failed" /\ pc = "returned"
    /\ fileAtStart["access_token"] = "tokA"
    /\ result = <<"tokB", "urn:li:person:s1">>

\* C3 as stated: when the userinfo fetch of the fresh flow fails the run ends
\* with the token file as it was before the run, and no record without
\* person_urn and user_name is left on disk by a write of this run.
C3_FileUntouchedUnlessComplete ==
    /\ (pc = "raised" /\ failure = "userinfo") => file = fileAtStart
    /\ (pc \in {"returned", "raised"} /\ io.writes > 0) =>
          {"person_urn", "user_name"} \subseteq DOMAIN file

\* C3 amended: the token file is written only after a successful exchange,
\* first with the bare reply of the exchange, then, after the userinfo fetch
\* succeeded, with person_urn and user_name merged in.  When the userinfo
\* fetch of the fresh flow fails the run ends with the bare reply of this
\* run's exchange on disk; when the exchange fails the file is as before.
C3_FileWrittenAfterExchange ==
    /\ io.writes > 0 => (io.exchange = 1 /\ token_status = 200)
    /\ (pc = "userinfo") => (io.writes = 1 /\ file = lastExchange)
    /\ (pc = "raised" /\ failure = "userinfo") =>
          /\ io.writes = 1
          /\ file = lastExchange
          /\ "person_urn" \notin DOMAIN file
          /\ "user_name" \notin DOMAIN file
    /\ (pc = "raised" /\ failure = "exchange") =>
          (io.writes = 0 /\ file = fileAtStart)
    /\ (pc = "returned" /\ probe # "ok") =>
          /\ io.writes = 2
          /\ {"person_urn", "user_name"} \subseteq DOMAIN file

C3_Witness ==
    /\ pc = "raised" /\ failure = "userinfo"
    /\ "person_urn" \in DOMAIN fileAtStart
    /\ file = [access_token |-> "tokB", expires_in |-> 5184000]

\* C4 as stated: a request to /callback whose query has a code parameter, of
\* any value, sets the captured code to the first code value and is answered
\* 200, whatever else the query holds.
C4_AnyCodeCaptured ==
    (Handled /\ request.path = "/callback" /\ CodeParams(request.query) # {}) =>
        /\ status = 200
        /\ server_auth_code =
              unquote(request.query[First(CodeParams(request.query))].value)

\* C4 amended: a request to /callback whose query has a code parameter with a
\* value that is not blank sets the captured code to the (decoded) first
\* such value and is answered 200, whatever else the query holds, an error
\* parameter included; a code parameter with a blank value counts as absent.
C4_NonBlankCodeCaptured ==
    /\ (Handled /\ request.path = "/callback"
               /\ NonBlankCodeParams(request.query) # {}) =>
          /\ status = 200
          /\ server_auth_code =
                unquote(request.query[First(NonBlankCodeParams(request.query))].value)
    /\ (Handled /\ request.path = "/callback"
               /\ NonBlankCodeParams(request.query) = {}) =>
          /\ status = 400
          /\ server_auth_code = None

C4_Witness ==
    /\ Handled
    /\ request = [path |-> "/callback",
                  query |-> <<[name |-> "error", value |-> <<"A">>],
                              [name |-> "code", value |-> <<"%42", "+">>]>>]
    /\ status = 200
    /\ server_auth_code = "B "

\* C5: a handled request that is not a /callback request with a code
\* parameter leaves the captured code unset: /callback without a code
\* parameter (with an error parameter, say) is answered 400, any other path
\* is answered 404, whatever its query holds.
C5_OtherRequestsCaptureNothing ==
    Handled =>
        /\ request.path # "/callback" =>
              (status = 404 /\ server_auth_code = None)
        /\ (request.path = "/callback" /\ CodeParams(request.query) = {}) =>
              (status = 400 /\ server_auth_code = None)
        /\ status \in {400, 404} => server_auth_code = None

C5_Witness ==
    /\ Handled
    /\ request.path = "/favicon.ico"
    /\ NonBlankCodeParams(request.query) # {}
    /\ status = 404
    /\ server_auth_code = None

\* C6: when the token endpoint answers with a status other than 200 the run
\* has ended raising: one exchange was made, the userinfo endpoint was called
\* for the probe of a cached token at most, nothing was written, nothing is
\* returned and the program takes no further step.
C6_ExchangeFailureIsFatal ==
    (token_status # 0 /\ token_status # 200) =>
        /\ pc = "raised"
        /\ io.exchange = 1
        /\ io.userinfo = (IF HasToken(fileAtStart) THEN 1 ELSE 0)
        /\ io.writes = 0 /\ file = fileAtStart
        /\ result = NoResult
        /\ ~ENABLED Next

C6_Witness ==
    /\ token_status = 400 /\ pc = "raised"
    /\ probe = "failed" /\ file # NoDict

\* C7: with the client id or the client secret missing the program stops at
\* the configuration error: authenticate() is not entered, no network call
\* is made, the browser is not opened, the listener is not started, the token
\* file is neither read nor written.
C7_MissingCredentialsStop ==
    (Missing(CLIENT_ID) \/ Missing(CLIENT_SECRET)) =>
        /\ pc \in {"main", "config_error"}
        /\ io = NoIo
        /\ file = fileAtStart
        /\ tokens = NoDict
        /\ result = NoResult

C7_Witness ==
    /\ pc = "config_error"
    /\ CLIENT_ID = "id" /\ CLIENT_SECRET = ""
    /\ HasToken(file)

\* C8: once authenticate() has returned or raised, a token file on disk
\* holds the access_token of the most recent successful exchange.
C8_FileHoldsLatestToken ==
    (pc \in {"returned", "raised"} /\ file # NoDict) =>
        /\ lastExchange # NoDict
        /\ TokenIn(file) = TokenIn(lastExchange)

C8_Witness ==
    /\ pc = "raised" /\ failure = "userinfo"
    /\ TokenIn(fileAtStart) = "tokA"
    /\ TokenIn(lastExchange) = "tokB"

\* C9: when the fresh flow has returned, the file holds the exchange's reply
\* with person_urn = "urn:li:person:" + sub and user_name = name (Unknown when
\* the reply has none) added, and the pair returned is (access_token,
\* person_urn) of that record.
C9_FreshFlowRecord ==
    (pc = "returned" /\ probe # "ok") =>
        /\ token_status = 200
        /\ DOMAIN file = DOMAIN lastExchange \cup {"person_urn", "user_name"}
        /\ \A k \in DOMAIN lastExchange : file[k] = lastExchange[k]
        /\ file["person_urn"] = UrnFor(user_info)
        /\ file["user_name"] = (IF "name" \in DOMAIN user_info
                                THEN user_info["name"] ELSE "Unknown")
        /\ result = <<file["access_token"], file["person_urn"]>>

C9_Witness ==
    /\ pc = "returned" /\ probe = "none"
    /\ file = [access_token |-> "tokA", expires_in |-> 5184000,
               person_urn |-> "urn:li:person:s2", user_name |-> "Unknown"]

\* C10: the wait of get_authorization_code() ends only right after a request
\* that captured a code, and then at once: after a request answered 400 or
\* 404 the loop goes on waiting, nothing but a handled request ends the
\* wait, no further request is handled after a capture, and the captured code
\* is the one code handed to the one exchange of the flow.
C10_Step ==
    /\ (pc = "wait" /\ pc' # "wait") =>
          /\ status = 200
          /\ server_auth_code # None
          /\ pc' = "exchange"
          /\ auth_code' = server_auth_code
    /\ (pc = "wait" /\ server_auth_code # None) => pc' = "exchange"
    /\ (pc = "wait" /\ server_auth_code = None) =>
          (pc' = "wait" /\ status' \in {200, 400, 404})
    /\ (pc' = "wait" /\ status' \in {400, 404}) => server_auth_code' = None
    /\ (pc # "wait" /\ pc # "fresh") => auth_code' = auth_code

C10_WaitEndsOnCapture ==
    /\ [][C10_Step]_vars
    /\ [](io.exchange <= 1 /\ io.listen <= 1)
    /\ [](io.exchange = 1 => auth_code # None)

C10_Witness ==
    /\ pc = "exchange"
    /\ auth_code = "A"
    /\ io.exchange = 0

====
